---- MODULE Spec2Model ----
(***************************************************************************)
(* Model of deploy_topology.py: one run of the script against a GNS3       *)
(* server.  The script is a single sequential flow of control; every       *)
(* remote call is one step.  Python dictionaries are functions whose       *)
(* DOMAIN is the set of keys, so "key in dict" is "key \in DOMAIN dict"    *)
(* and a KeyError is a read outside the DOMAIN.                            *)
(*                                                                         *)
(* Input assumptions (the configuration file is well formed as in §3 of    *)
(* the specification): every node carries ip and gw, the server URL has a  *)
(* port, error bodies of the server are JSON with a "message".             *)
(***************************************************************************)
EXTENDS Integers, Sequences, FiniteSets, TLC

\* ------------------------------------------------------------------ bounds
MaxNodes == 2
MaxLinks == 2
MaxPorts == 2
MaxProjects == 2

\* ------------------------------------------------- constants of the source
None == -1
ListOk == 200
DeleteOk == 204
CreateOk == 201
TemplatesOk == 200
NodeOk == 201
UpdateOk == 200
LinkOk == 201
StartOk == 204
SettleDelay == 10

\* Statuses the server may answer any call with.
StatusCodes == {200, 201, 204, 404}

\* ------------------------------------------------------------ input domains
NodeNames == <<"R1", "R2", "R3", "R4">>
GhostNode == "Rx"
ProjectName == "lab"
ProjectNames == {"lab", "LAB"}
TemplateNames == {"Router", "Ghost"}
OptionalKeys == {"cloud_init", "cmdfile"}

\* The template listing of the server: t["name"], t["template_id"].
Templates ==
    << [name |-> "Switch", template_id |-> 1],
       [name |-> "Router", template_id |-> 2] >>

VARIABLES
    config_file,  \* the configuration file on disk (never written)
    args,         \* command line: which output files were requested
    CONFIG,       \* the global CONFIG dictionary
    server,       \* the remote server: projects, nodes, links, started
    next_id,      \* the server's source of fresh identifiers
    pc,           \* position of the script
    i,            \* loop index of the running loop (1-based)
    project,      \* create_project's local: the matched project or None
    calls,        \* remote calls issued so far, with the status returned
    invoked,      \* Day-0 invocations made so far, with the exit status
    slept,        \* seconds spent in sleep() so far
    tmpdirs,      \* temporary directories that exist on disk
    atexit,       \* directories registered with atexit for removal
    written,      \* output files written
    exit_code,    \* process exit status (None while running)
    outcome,      \* how the run ended
    at,           \* the step in which the process ended
    run,          \* number of the run (1 or 2)
    before,       \* the server's project listing before the first run
    first         \* shape of the server after the first run

vars == << config_file, args, CONFIG, server, next_id, pc, i, project, calls,
           invoked, slept, tmpdirs, atexit, written, exit_code, outcome, at, run,
           before, first >>

\* ----------------------------------------------------------------- helpers
Range(s) == {s[n] : n \in DOMAIN s}

\* d[k] = v on a dictionary: adds the key or overwrites it.
SetKey(d, k, v) == [x \in DOMAIN d \cup {k} |-> IF x = k THEN v ELSE d[x]]

\* All sequences over S of length lo..hi.
SeqsOf(S, lo, hi) == UNION {[1..n -> S] : n \in lo..hi}

\* One remote call in the log: the request, and the status and body of the
\* response.
Call(op, status, name, data, body) ==
    [op |-> op, status |-> status, name |-> name, data |-> data, body |-> body]

\* The None that stands for "no project found".
NoProject == [project_id |-> None, name |-> ""]

\* A search that takes the first project of the listing whatever its name.
FirstMatch_AnyName(body, name) ==
    IF body = <<>> THEN NoProject ELSE body[1]

\* A search that compares the names without regard to case.
FirstMatch_IgnoreCase(body, name) ==
    LET lower(nm) == IF nm = "LAB" THEN "lab" ELSE nm
        hits == {n \in DOMAIN body : lower(body[n].name) = lower(name)}
    IN  IF hits = {} THEN NoProject
        ELSE body[CHOOSE n \in hits : \A m \in hits : n <= m]

\* A search that never finds the project.
FirstMatch_Never(body, name) == NoProject

\* next(item for item in body if item["name"] == name, None): the first
\* item of the listing with that name, None if there is none.
FirstMatch(body, name) ==
    LET hits == {n \in DOMAIN body : body[n].name = name}
    IN  IF hits = {} THEN NoProject
        ELSE body[CHOOSE n \in hits : \A m \in hits : n <= m]

\* templates = { t["name"]: t["template_id"] for t in body }
TemplateDict(body) ==
    [nm \in {body[n].name : n \in DOMAIN body} |->
        LET hits == {n \in DOMAIN body : body[n].name = nm}
        IN  body[CHOOSE n \in hits : \A m \in hits : n >= m].template_id]

\* A test that is never made: every answer passes.
Failed_Never(status, expected) == FALSE

\* A test that lets every status below 400 pass.
Failed_Lenient(status, expected) == status >= 400

\* The test every remote call's answer goes through: the status is not the
\* one the call expects.
Failed(status, expected) == status # expected

\* Index of the node called `name` in CONFIG["nodes"], 0 if there is none.
NodeIndex(nodes, name) ==
    IF \E n \in DOMAIN nodes : nodes[n].name = name
    THEN CHOOSE n \in DOMAIN nodes : nodes[n].name = name
    ELSE 0

\* ------------------------------------------------------------------ server
EmptyServer == [projects |-> <<>>, nodes |-> <<>>, links |-> <<>>, started |-> {}]

SrvDeleteProject(s, pid) ==
    [s EXCEPT !.projects = SelectSeq(@, LAMBDA p : p.project_id # pid),
              !.nodes = SelectSeq(@, LAMBDA n : n.project_id # pid),
              !.links = SelectSeq(@, LAMBDA l : l.project_id # pid),
              !.started = @ \ {pid}]

SrvCreateProject(s, pid, name) ==
    [s EXCEPT !.projects = Append(@, [project_id |-> pid, name |-> name])]

\* The ports of a node with n interfaces, as the server lists them.
PortList(n) == [p \in 1..n |-> [adapter_number |-> p - 1, port_number |-> 0]]

SrvCreateNode(s, pid, body, name) ==
    [s EXCEPT !.nodes = Append(@, [project_id |-> pid, node_id |-> body.node_id,
                                   name |-> name, cdrom |-> FALSE])]

SrvUpdateNode(s, nid) ==
    [s EXCEPT !.nodes = [n \in DOMAIN @ |->
        IF @[n].node_id = nid THEN [@[n] EXCEPT !.cdrom = TRUE] ELSE @[n]]]

SrvCreateLink(s, pid, ends) ==
    [s EXCEPT !.links = Append(@, [project_id |-> pid, nodes |-> ends])]

SrvStart(s, pid) == [s EXCEPT !.started = @ \cup {pid}]

\* --------------------------------------------------------------- the inputs
NodeDef(name, template, keys) ==
    [k \in {"name", "template_name"} \cup keys |->
        CASE k = "name" -> name
          [] k = "template_name" -> template
          [] k = "cmdfile" -> "linux"
          [] OTHER -> TRUE]

Member(name, interface) == [name |-> name, interface |-> interface]

\* Every node list of n nodes named R1..Rn.
NodeLists(n) ==
    {[k \in 1..n |-> NodeDef(NodeNames[k], t[k], o[k])] :
        t \in [1..n -> TemplateNames], o \in [1..n -> SUBSET OptionalKeys]}

PlainNodes(n) == [k \in 1..n |-> NodeDef(NodeNames[k], "Router", {})]

Members(n) ==
    {Member(nm, f) : nm \in {NodeNames[k] : k \in 1..n} \cup {GhostNode},
                     f \in 0..MaxPorts}

DefaultLink(n) == << Member(NodeNames[1], 0), Member(NodeNames[n], 0) >>

\* Every link list of up to hi links in which one link is any pair of
\* members and the others join the first node to the last.
LinkLists(n, hi) ==
    {<<>>} \cup
    UNION {{[k \in 1..len |-> IF k = v[1] THEN v[2] ELSE DefaultLink(n)] :
               v \in (1..len) \X [1..2 -> Members(n)]} : len \in 1..hi}

ProjectLists ==
    UNION {{[k \in 1..n |-> [project_id |-> k, name |-> nm[k]]] :
               nm \in [1..n -> ProjectNames]} : n \in 0..MaxProjects}

Config(nodes, links) ==
    [gns3_server_url |-> "http://gns3:3080", project_name |-> ProjectName,
     nodes |-> nodes, links |-> links]

NoArgs == [ansible_hosts |-> FALSE, output_file |-> FALSE]

\* The node definitions vary over every shape, with one link from the first
\* node to itself.
NodeInputs ==
    {[cfg |-> Config(nodes, << DefaultLink(1) >>), projects |-> <<>>,
      args |-> NoArgs] :
        nodes \in UNION {NodeLists(n) : n \in 1..MaxNodes}}

\* The link list varies as LinkLists says, over two plain nodes: a link has
\* two ends.
LinkInputs ==
    {[cfg |-> Config(PlainNodes(2), links), projects |-> <<>>, args |-> NoArgs] :
        links \in LinkLists(2, MaxLinks)}

\* The projects of the server and the command line vary, with a fixed
\* topology.
ProjectInputs ==
    {[cfg |-> Config(PlainNodes(MaxNodes), << DefaultLink(MaxNodes) >>),
      projects |-> ps, args |-> a] :
        ps \in ProjectLists,
        a \in [{"ansible_hosts", "output_file"} -> BOOLEAN]}

\* A project of the configured name is on the server, and the topology is
\* one node of any shape with one link from any interface of it to itself
\* or to an undefined node.
PriorInputs ==
    {[cfg |-> Config(nodes, << << Member(NodeNames[1], f), Member(nm, 0) >> >>),
      projects |-> << [project_id |-> 1, name |-> ProjectName] >>,
      args |-> NoArgs] :
        nodes \in NodeLists(1), f \in 0..MaxPorts,
        nm \in {NodeNames[1], GhostNode}}

Inputs == NodeInputs \cup LinkInputs \cup ProjectInputs \cup PriorInputs

\* ------------------------------------------------------------------- main
\* A main program that starts the nodes before it adds the links.
Main_StartFirst ==
    << "create_project", "assign_template_ids", "add_nodes", "start_nodes",
       "add_links", "emit", "day0_config" >>

\* A main program that assigns the template ids before it resolves the
\* project.
Main_TemplatesFirst ==
    << "assign_template_ids", "create_project", "add_nodes", "add_links",
       "emit", "start_nodes", "day0_config" >>

\* A main program that writes the output files after it has started the
\* nodes.
Main_EmitAfterStart ==
    << "create_project", "assign_template_ids", "add_nodes", "add_links",
       "start_nodes", "emit", "day0_config" >>

\* A main program that applies the Day-0 configuration before it starts
\* the nodes.
Main_Day0BeforeStart ==
    << "create_project", "assign_template_ids", "add_nodes", "add_links",
       "emit", "day0_config", "start_nodes" >>

\* The functions of the script in the order the main program calls them;
\* "emit" is the writing of the inventory and of the dump between add_links
\* and start_nodes.
Main ==
    << "create_project", "assign_template_ids", "add_nodes", "add_links",
       "emit", "start_nodes", "day0_config" >>

\* The state of a process that has loaded its configuration, for an input
\* of the set S.
InitFrom(S) ==
    \E inp \in S :
        /\ config_file = inp.cfg
        /\ args = inp.args
        /\ CONFIG = inp.cfg
        /\ server = [EmptyServer EXCEPT !.projects = inp.projects]
        /\ next_id = MaxProjects + 1
        /\ pc = Main[1]
        /\ i = 1
        /\ project = NoProject
        /\ calls = <<>>
        /\ invoked = <<>>
        /\ slept = 0
        /\ tmpdirs = {}
        /\ atexit = {}
        /\ written = {}
        /\ exit_code = None
        /\ outcome = "running"
        /\ at = ""
        /\ run = 1
        /\ before = inp.projects
        /\ first = <<>>

Init == InitFrom(Inputs)

\* ------------------------------------------------------------- sequencing
\* Where the script is once function f has returned: at the function main
\* calls next, or past add_links at once when there is no link to loop over.
After(f) ==
    LET at_f == CHOOSE n \in DOMAIN Main : Main[n] = f
        then == Main[at_f + 1]
    IN  IF then = "add_links" /\ CONFIG.links = <<>> THEN Main[at_f + 2] ELSE then

\* ------------------------------------------------------------------- exit
\* The process ends: atexit handlers remove the registered directories.
Exit(code, how) ==
    /\ pc' = "exited"
    /\ exit_code' = code
    /\ outcome' = how
    /\ at' = pc
    /\ tmpdirs' = tmpdirs \ atexit

\* ---------------------------------------------------------- create_project
\* GET /v2/projects and the search for a project of the configured name.
ListProjects ==
    /\ pc = "create_project"
    /\ \E st \in StatusCodes :
        /\ calls' = Append(calls, Call("list_projects", st, "", <<>>, <<>>))
        /\ IF ~Failed(st, ListOk)
           THEN /\ project' = FirstMatch(server.projects, CONFIG.project_name)
                /\ pc' = IF project' # NoProject THEN "delete_project" ELSE "post_project"
                /\ UNCHANGED << exit_code, outcome, at, tmpdirs >>
           ELSE /\ Exit(1, "http_error")
                /\ UNCHANGED project
    /\ UNCHANGED << slept, config_file, args, CONFIG, server, next_id, i, invoked,
                    atexit, written, run, before, first >>

\* DELETE /v2/projects/{id} of the project found.
DeleteProject ==
    /\ pc = "delete_project"
    /\ \E st \in StatusCodes :
        /\ calls' = Append(calls, Call("delete_project", st, "", project.project_id, <<>>))
        /\ IF Failed(st, DeleteOk)
           THEN /\ Exit(1, "http_error")
                /\ UNCHANGED server
           ELSE /\ server' = SrvDeleteProject(server, project.project_id)
                /\ pc' = "post_project"
                /\ UNCHANGED << exit_code, outcome, at, tmpdirs >>
    /\ UNCHANGED << slept, config_file, args, CONFIG, next_id, i, project, invoked,
                    atexit, written, run, before, first >>

\* POST /v2/projects: the project is (re)created and its id recorded.
PostProject ==
    /\ pc = "post_project"
    /\ \E st \in StatusCodes :
        /\ calls' = Append(calls, Call("create_project", st, CONFIG.project_name, <<>>, <<>>))
        /\ IF ~Failed(st, CreateOk)
           THEN /\ server' = SrvCreateProject(server, next_id, CONFIG.project_name)
                /\ next_id' = next_id + 1
                /\ CONFIG' = SetKey(CONFIG, "project_id", next_id)
                /\ pc' = After("create_project")
                /\ UNCHANGED << exit_code, outcome, at, tmpdirs >>
           ELSE /\ Exit(1, "http_error")
                /\ UNCHANGED << server, next_id, CONFIG >>
    /\ UNCHANGED << slept, config_file, args, i, project, invoked, atexit, written,
                    run, before, first >>

\* ------------------------------------------------------ assign_template_ids
\* A loop that reads the listing with templates.get(name): a template that
\* is not listed gives None and the loop goes on.
RECURSIVE AssignFrom_Get(_, _, _)
AssignFrom_Get(nodes, templates, from) ==
    IF from > Len(nodes) THEN [nodes |-> nodes, ok |-> TRUE]
    ELSE AssignFrom_Get(
           [nodes EXCEPT ![from] =
               SetKey(@, "template_id",
                      IF @.template_name \in DOMAIN templates
                      THEN templates[@.template_name] ELSE None)],
           templates, from + 1)

\* The loop of assign_template_ids over nodes[from..]: each node gets its
\* template id until the first node whose template is not in the listing.
RECURSIVE AssignFrom(_, _, _)
AssignFrom(nodes, templates, from) ==
    IF from > Len(nodes) THEN [nodes |-> nodes, ok |-> TRUE]
    ELSE IF nodes[from].template_name \notin DOMAIN templates
         THEN [nodes |-> nodes, ok |-> FALSE]
         ELSE AssignFrom(
                [nodes EXCEPT ![from] =
                    SetKey(@, "template_id", templates[@.template_name])],
                templates, from + 1)

AssignTemplateIds ==
    /\ pc = "assign_template_ids"
    /\ \E st \in StatusCodes :
        /\ calls' = Append(calls, Call("list_templates", st, "", <<>>, <<>>))
        /\ IF Failed(st, TemplatesOk)
           THEN /\ Exit(1, "http_error")
                /\ UNCHANGED << CONFIG, i >>
           ELSE LET r == AssignFrom(CONFIG.nodes, TemplateDict(Templates), 1)
                IN  /\ CONFIG' = [CONFIG EXCEPT !.nodes = r.nodes]
                    /\ IF r.ok
                       THEN /\ pc' = After("assign_template_ids")
                            /\ i' = 1
                            /\ UNCHANGED << exit_code, outcome, at, tmpdirs >>
                       ELSE /\ Exit(1, "unknown_template")
                            /\ UNCHANGED i
    /\ UNCHANGED << slept, config_file, args, server, next_id, project, invoked,
                    atexit, written, run, before, first >>

\* ---------------------------------------------------------------- add_nodes
\* Where the script goes after node n is done.
AfterNode(n) ==
    IF n < Len(CONFIG.nodes) THEN "add_nodes" ELSE After("add_nodes")

\* The bodies the server may answer a node creation with: a fresh node id,
\* a console port and the list of the node's ports, of any length, or a
\* null console.
NodeBodies ==
    {[node_id |-> next_id, console |-> next_id, ports |-> PortList(n)] :
        n \in 0..MaxPorts}
    \cup {[node_id |-> next_id, console |-> None, ports |-> PortList(0)]}

\* An update that leaves the console out.
Record_NoConsole(node_config, instance_data) ==
    SetKey(SetKey(node_config, "node_id", instance_data.node_id),
           "ports", instance_data.ports)

\* An update that stores the console and the node id under each other's key.
Record_Swapped(node_config, instance_data) ==
    SetKey(SetKey(SetKey(node_config, "console", instance_data.node_id),
                  "node_id", instance_data.console),
           "ports", instance_data.ports)

\* "Update node configuration with returned details".
Record(node_config, instance_data) ==
    SetKey(SetKey(SetKey(node_config, "console", instance_data.console),
                  "node_id", instance_data.node_id),
           "ports", instance_data.ports)

\* POST .../templates/{template_id}: node i is created from its template and
\* the returned details are recorded in its definition.  A definition
\* without "template_id" is a KeyError when the URL is built.
CreateNode ==
    /\ pc = "add_nodes"
    /\ LET node == CONFIG.nodes[i] IN
       IF "template_id" \notin DOMAIN node
       THEN /\ Exit(1, "traceback")
            /\ UNCHANGED << CONFIG, server, next_id, i, calls >>
       ELSE
       \E st \in StatusCodes :
        IF Failed(st, NodeOk)
        THEN /\ calls' = Append(calls, Call("create_node", st, node.name,
                                            node.template_id, <<>>))
             /\ Exit(1, "http_error")
             /\ UNCHANGED << CONFIG, server, next_id, i >>
        ELSE \E body \in NodeBodies :
                /\ calls' = Append(calls, Call("create_node", st, node.name,
                                               node.template_id, body))
                /\ server' = SrvCreateNode(server, CONFIG.project_id, body, node.name)
                /\ next_id' = next_id + 1
                /\ CONFIG' = [CONFIG EXCEPT !.nodes[i] = Record(@, body)]
                /\ IF "cloud_init" \in DOMAIN node
                   THEN pc' = "create_cloud_config" /\ UNCHANGED i
                   ELSE /\ pc' = AfterNode(i)
                        /\ i' = IF i < Len(CONFIG.nodes) THEN i + 1 ELSE 1
                /\ UNCHANGED << exit_code, outcome, at, tmpdirs >>
    /\ UNCHANGED << slept, config_file, args, project, invoked, atexit, written,
                    run, before, first >>

\* create_cloud_config: a temporary directory is made, the ISO image is
\* written into it, and only then is the directory registered for removal.
\* Writing the files or the image can raise.
CreateCloudConfig ==
    /\ pc = "create_cloud_config"
    /\ LET dir == CONFIG.nodes[i].name IN
       \E built \in BOOLEAN :
        IF built
        THEN /\ tmpdirs' = tmpdirs \cup {dir}
             /\ atexit' = atexit \cup {dir}
             /\ pc' = "update_node"
             /\ UNCHANGED << exit_code, outcome, at >>
        ELSE /\ pc' = "exited"
             /\ exit_code' = 1
             /\ outcome' = "traceback"
             /\ at' = pc
             /\ tmpdirs' = (tmpdirs \cup {dir}) \ atexit
             /\ UNCHANGED atexit
    /\ UNCHANGED << slept, config_file, args, CONFIG, server, next_id, i, project,
                    calls, invoked, written, run, before, first >>

\* PUT .../nodes/{node_id}: the seed image is attached to node i.
UpdateNode ==
    /\ pc = "update_node"
    /\ LET node == CONFIG.nodes[i] IN
       \E st \in StatusCodes :
        /\ calls' = Append(calls, Call("update_node", st, node.name, node.node_id, <<>>))
        /\ IF Failed(st, UpdateOk)
           THEN /\ Exit(1, "http_error")
                /\ UNCHANGED << server, i >>
           ELSE /\ server' = SrvUpdateNode(server, node.node_id)
                /\ pc' = AfterNode(i)
                /\ i' = IF i < Len(CONFIG.nodes) THEN i + 1 ELSE 1
                /\ UNCHANGED << exit_code, outcome, at, tmpdirs >>
    /\ UNCHANGED << slept, config_file, args, CONFIG, next_id, project, invoked,
                    atexit, written, run, before, first >>

\* ---------------------------------------------------------------- add_links
\* node["ports"][interface] exists: the interface indexes the port list.
HasPort(node, interface) ==
    "ports" \in DOMAIN node /\ interface < Len(node.ports)

\* The inner loop of add_links over the members of one link: how it ends
\* ("ok", "unknown_node" for the caught KeyError of the node lookup,
\* "traceback" for an uncaught KeyError or IndexError of the lines after
\* the try block) and the link as it leaves it.
RECURSIVE ResolveFrom(_, _, _)
ResolveFrom(nodes, link, m) ==
    IF m > Len(link) THEN [link |-> link, how |-> "ok"]
    ELSE LET n == NodeIndex(nodes, link[m].name) IN
         IF n = 0 THEN [link |-> link, how |-> "unknown_node"]
         ELSE IF "node_id" \notin DOMAIN nodes[n]
         THEN [link |-> link, how |-> "traceback"]
         ELSE LET withId == SetKey(link[m], "node_id", nodes[n].node_id) IN
              IF ~HasPort(nodes[n], link[m].interface)
              THEN [link |-> [link EXCEPT ![m] = withId], how |-> "traceback"]
              ELSE LET port == nodes[n].ports[link[m].interface + 1] IN
                   ResolveFrom(nodes,
                     [link EXCEPT ![m] =
                        SetKey(SetKey(withId, "adapter_number", port.adapter_number),
                               "port_number", port.port_number)],
                     m + 1)

\* A request that lists the second member first.
LinkData_Crossed(link) ==
    [m \in 1..2 |-> [node_id |-> link[3 - m].node_id,
                     adapter_number |-> link[3 - m].adapter_number,
                     port_number |-> link[3 - m].port_number]]

\* The "nodes" of the link request.
LinkData(link) ==
    [m \in 1..2 |-> [node_id |-> link[m].node_id,
                     adapter_number |-> link[m].adapter_number,
                     port_number |-> link[m].port_number]]

\* One iteration of add_links: link i is resolved and POSTed.
AddLink ==
    /\ pc = "add_links"
    /\ LET r == ResolveFrom(CONFIG.nodes, CONFIG.links[i], 1) IN
        /\ CONFIG' = [CONFIG EXCEPT !.links[i] = r.link]
        /\ IF r.how # "ok"
           THEN /\ Exit(1, r.how)
                /\ UNCHANGED << server, calls, i >>
           ELSE \E st \in StatusCodes :
                /\ calls' = Append(calls, Call("create_link", st, "", LinkData(r.link), <<>>))
                /\ IF Failed(st, LinkOk)
                   THEN /\ Exit(1, "http_error")
                        /\ UNCHANGED << server, i >>
                   ELSE /\ server' = SrvCreateLink(server, CONFIG.project_id,
                                                   LinkData(r.link))
                        /\ pc' = IF i < Len(CONFIG.links) THEN "add_links"
                                 ELSE After("add_links")
                        /\ i' = IF i < Len(CONFIG.links) THEN i + 1 ELSE 1
                        /\ UNCHANGED << exit_code, outcome, at, tmpdirs >>
    /\ UNCHANGED << slept, config_file, args, next_id, project, invoked, atexit,
                    written, run, before, first >>

\* ------------------------------------------------------------ output files
\* The inventory and the dump of CONFIG are written when requested.  (The
\* files themselves were opened for writing, and so created empty, when the
\* command line was parsed; `written` is about their content.)
Emit ==
    /\ pc = "emit"
    /\ written' = {f \in DOMAIN args : args[f]}
    /\ pc' = After("emit")
    /\ i' = 1
    /\ UNCHANGED << slept, config_file, args, CONFIG, server, next_id, project,
                    calls, invoked, tmpdirs, atexit, exit_code, outcome, at,
                    run, before, first >>

\* -------------------------------------------------------------- start_nodes
\* POST .../nodes/start, then sleep(10) when the answer is 204.
StartNodes ==
    /\ pc = "start_nodes"
    /\ \E st \in StatusCodes :
        /\ calls' = Append(calls, Call("start_all", st, "", <<>>, <<>>))
        /\ IF ~Failed(st, StartOk)
           THEN /\ server' = SrvStart(server, CONFIG.project_id)
                /\ slept' = slept + SettleDelay
                /\ pc' = After("start_nodes")
                /\ i' = 1
                /\ UNCHANGED << exit_code, outcome, at, tmpdirs >>
           ELSE /\ Exit(1, "http_error")
                /\ UNCHANGED << server, i, slept >>
    /\ UNCHANGED << config_file, args, CONFIG, next_id, project, invoked,
                    atexit, written, run, before, first >>

\* -------------------------------------------------------------- day0_config
\* A loop that configures every node from position n on.
ToConfigure_All(n) == n..Len(CONFIG.nodes)

\* The nodes from position n on that have a "cmdfile".
ToConfigure(n) ==
    {k \in n..Len(CONFIG.nodes) : "cmdfile" \in DOMAIN CONFIG.nodes[k]}

\* subprocess.check_call: a non-zero exit status raises.
CallRaises_Check(rc) == rc # 0

\* subprocess.call returns the exit status of the command and raises for
\* none of them; day0_config drops the value.
CallRaises(rc) == FALSE

\* call(expect_cmd) for the next node with a "cmdfile".
Day0Invoke ==
    /\ pc = "day0_config"
    /\ ToConfigure(i) # {}
    /\ LET k == CHOOSE k \in ToConfigure(i) : \A l \in ToConfigure(i) : k <= l IN
       \E rc \in {0, 1} :
        /\ invoked' = Append(invoked, [name |-> CONFIG.nodes[k].name,
                                       console |-> CONFIG.nodes[k].console,
                                       rc |-> rc])
        /\ IF CallRaises(rc)
           THEN Exit(1, "traceback") /\ UNCHANGED i
           ELSE i' = k + 1 /\ UNCHANGED << pc, exit_code, outcome, at, tmpdirs >>
    /\ UNCHANGED << slept, config_file, args, CONFIG, server, next_id, project,
                    calls, atexit, written, run, before, first >>

\* The loop of day0_config is over: the script ends normally.
Finish ==
    /\ pc = "day0_config"
    /\ ToConfigure(i) = {}
    /\ Exit(0, "success")
    /\ UNCHANGED << slept, config_file, args, CONFIG, server, next_id, i, project,
                    calls, invoked, atexit, written, run, before, first >>

\* ----------------------------------------------------------- a second run
\* What a project of the server looks like apart from the identifiers: the
\* names of its nodes and, for every link, the name, adapter and port of
\* its two ends.
NodeNameOf(s, nid) ==
    LET ns == {n \in DOMAIN s.nodes : s.nodes[n].node_id = nid}
    IN  IF ns = {} THEN "" ELSE s.nodes[CHOOSE n \in ns : TRUE].name

ProjectShape(s, pid) ==
    LET ns == SelectSeq(s.nodes, LAMBDA n : n.project_id = pid)
        ls == SelectSeq(s.links, LAMBDA l : l.project_id = pid)
    IN  [nodes |-> [n \in DOMAIN ns |-> ns[n].name],
         links |-> [l \in DOMAIN ls |->
                      [m \in 1..2 |-> [name |-> NodeNameOf(s, ls[l].nodes[m].node_id),
                                       adapter_number |-> ls[l].nodes[m].adapter_number,
                                       port_number |-> ls[l].nodes[m].port_number]]]]

\* The shapes of the projects called `name`, in listing order.
Shape(s, name) ==
    LET ps == SelectSeq(s.projects, LAMBDA p : p.name = name)
    IN  [n \in DOMAIN ps |-> ProjectShape(s, ps[n].project_id)]

\* The script is started again with the same configuration file and command
\* line after a run that ended with status 0.
Rerun ==
    /\ pc = "exited"
    /\ exit_code = 0
    /\ run = 1
    /\ run' = 2
    /\ first' = Shape(server, config_file.project_name)
    /\ CONFIG' = config_file
    /\ pc' = Main[1]
    /\ i' = 1
    /\ project' = NoProject
    /\ calls' = <<>>
    /\ invoked' = <<>>
    /\ slept' = 0
    /\ atexit' = {}
    /\ written' = {}
    /\ exit_code' = None
    /\ outcome' = "running"
    /\ at' = ""
    /\ UNCHANGED << config_file, args, server, next_id, tmpdirs, before >>

Next ==
    \/ ListProjects
    \/ DeleteProject
    \/ PostProject
    \/ AssignTemplateIds
    \/ CreateNode
    \/ CreateCloudConfig
    \/ UpdateNode
    \/ AddLink
    \/ Emit
    \/ StartNodes
    \/ Day0Invoke
    \/ Finish

\* One run of the script.
Spec == Init /\ [][Next]_vars

NextTwice == Next \/ Rerun

InitTwice == InitFrom(NodeInputs \cup ProjectInputs)

\* Two runs of the script in succession.
SpecTwice == InitTwice /\ [][NextTwice]_vars

\* ------------------------------------------------------- template pools
\* The Pool variant of the node provisioner (§4.3 of the specification): a
\* pool is a template name and a list of instance descriptors; the
\* instances are created under names derived from the template name.  Names
\* are sequences of characters here, so that removing the spaces and
\* writing the number are computed.
MaxPools == 2
MaxInstances == 2

PoolTemplates == { << "R" >>, << "R", " ", "A" >>, << " ", "S", " " >> }

Digit == << "0", "1", "2", "3", "4", "5", "6", "7", "8", "9" >>

\* The decimal writing of n.
RECURSIVE Decimal(_)
Decimal(n) ==
    IF n < 10 THEN << Digit[n + 1] >>
    ELSE Decimal(n \div 10) \o << Digit[(n % 10) + 1] >>

\* The template name without its spaces.
NoSpaces(t) == SelectSeq(t, LAMBDA c : c # " ")

\* A name that counts the instances from 0.
PoolName_FromZero(t, n) == NoSpaces(t) \o << "-" >> \o Decimal(n - 1)

\* The name of instance n (1-based) of the pool of template t.
PoolName(t, n) == NoSpaces(t) \o << "-" >> \o Decimal(n)

Pool(t, n) == [template_name |-> t, instances |-> [k \in 1..n |-> [ip |-> k]]]

\* Every list of up to MaxPools pools of different templates, each of up to
\* MaxInstances instances.
PoolLists ==
    UNION {{[k \in 1..len |-> Pool(t[k], c[k])] :
               t \in {u \in [1..len -> PoolTemplates] :
                         \A a, b \in 1..len : a # b => u[a] # u[b]},
               c \in [1..len -> 0..MaxInstances]} : len \in 1..MaxPools}

\* The state once the project is resolved and the templates are assigned.
InitPool ==
    \E pools \in PoolLists :
        /\ config_file = [project_name |-> ProjectName, pools |-> pools]
        /\ args = NoArgs
        /\ CONFIG = [project_name |-> ProjectName, project_id |-> 1, pools |-> pools]
        /\ server = [EmptyServer EXCEPT
                        !.projects = << [project_id |-> 1, name |-> ProjectName] >>]
        /\ next_id = 2
        /\ pc = "add_pool_nodes"
        /\ i = 1
        /\ project = NoProject
        /\ calls = <<>>
        /\ invoked = <<>>
        /\ slept = 0
        /\ tmpdirs = {}
        /\ atexit = {}
        /\ written = {}
        /\ exit_code = None
        /\ outcome = "running"
        /\ at = ""
        /\ run = 1
        /\ before = <<>>
        /\ first = <<>>

\* The instances of pool p that have their name.
NamedIn(p) == {k \in DOMAIN p.instances : "name" \in DOMAIN p.instances[k]}

\* One iteration over the instance descriptors: the next instance of pool i
\* gets its name and one creation call is issued for it; a pool whose
\* instances are all created is left for the next one.
PoolCreateNode ==
    /\ pc = "add_pool_nodes"
    /\ i <= Len(CONFIG.pools)
    /\ LET p == CONFIG.pools[i]
           n == Cardinality(NamedIn(p)) + 1
       IN  IF n > Len(p.instances)
           THEN /\ i' = i + 1
                /\ UNCHANGED << CONFIG, server, next_id, calls, pc, exit_code,
                                outcome, at, tmpdirs >>
           ELSE LET name == PoolName(p.template_name, n) IN
                /\ CONFIG' = [CONFIG EXCEPT !.pools[i].instances[n] =
                                 SetKey(@, "name", name)]
                /\ \E st \in StatusCodes :
                    /\ calls' = Append(calls, Call("create_node", st, name,
                                                   p.template_name, <<>>))
                    /\ IF Failed(st, NodeOk)
                       THEN /\ Exit(1, "http_error")
                            /\ UNCHANGED << server, next_id, i >>
                       ELSE /\ server' = SrvCreateNode(server, CONFIG.project_id,
                                                       [node_id |-> next_id], name)
                            /\ next_id' = next_id + 1
                            /\ UNCHANGED << i, pc, exit_code, outcome, at, tmpdirs >>
    /\ UNCHANGED << slept, config_file, args, project, invoked, atexit, written, run,
                    before, first >>

\* The node id of the first node called `name` in the listing, None if no
\* node has that name.
LookupNodeId(listing, name) ==
    LET hits == {n \in DOMAIN listing : listing[n].name = name}
    IN  IF hits = {} THEN None
        ELSE listing[CHOOSE n \in hits : \A m \in hits : n <= m].node_id

\* After all creations: one listing call for the nodes of the project, and
\* every instance gets the node id listed under its name.
PoolListNodes ==
    /\ pc = "add_pool_nodes"
    /\ i > Len(CONFIG.pools)
    /\ \E st \in StatusCodes :
        /\ calls' = Append(calls, Call("list_nodes", st, "", <<>>, <<>>))
        /\ IF Failed(st, ListOk)
           THEN /\ Exit(1, "http_error")
                /\ UNCHANGED CONFIG
           ELSE /\ CONFIG' = [CONFIG EXCEPT !.pools =
                       [p \in DOMAIN @ |-> [@[p] EXCEPT !.instances =
                           [k \in DOMAIN @ |->
                               SetKey(@[k], "node_id",
                                      LookupNodeId(server.nodes, @[k].name))]]]]
                /\ pc' = "pool_nodes_added"
                /\ UNCHANGED << exit_code, outcome, at, tmpdirs >>
    /\ UNCHANGED << slept, config_file, args, server, next_id, i, project, invoked,
                    atexit, written, run, before, first >>

NextPool == PoolCreateNode \/ PoolListNodes

\* The provisioning of the template pools of one run.
SpecPool == InitPool /\ [][NextPool]_vars

\* =================================================================== claims
Named(ps, name) == {n \in DOMAIN ps : ps[n].name = name}
ProjectIds(ps) == {ps[n].project_id : n \in DOMAIN ps}

\* create_project has returned: the project id is in CONFIG.
ProjectResolved == "project_id" \in DOMAIN CONFIG

\* Project n of the listing before the run is gone, and the server has one
\* project of the configured name, with another identifier.
Replaced(n) ==
    /\ before[n].project_id \notin ProjectIds(server.projects)
    /\ Cardinality(Named(server.projects, CONFIG.project_name)) = 1
    /\ \A m \in Named(server.projects, CONFIG.project_name) :
          /\ server.projects[m].project_id # before[n].project_id
          /\ server.projects[m].project_id = CONFIG.project_id

\* C1 as stated: once create_project has succeeded, every project that had
\* the configured name before the run is absent and the server holds exactly
\* one project of that name, with a different identifier.
C1_Original ==
    ProjectResolved =>
        \A n \in Named(before, CONFIG.project_name) : Replaced(n)

\* C1 amended: the same, for a server that held exactly one project of the
\* configured name before the run.
C1_ReplacesTheOnlyProject ==
    (ProjectResolved /\ Cardinality(Named(before, CONFIG.project_name)) = 1) =>
        \A n \in Named(before, CONFIG.project_name) : Replaced(n)

\* create_project succeeded on a server that held one project of the
\* configured name after a project of another name.
C1_Witness ==
    /\ ProjectResolved
    /\ Len(before) = 2
    /\ before[1].name # CONFIG.project_name
    /\ before[2].name = CONFIG.project_name
    /\ Len(server.projects) = 2

CallsOf(op) == {n \in DOMAIN calls : calls[n].op = op}

\* Some node definition of the configuration file names a template the
\* server does not list.
TemplateMissing ==
    \E n \in DOMAIN config_file.nodes :
        config_file.nodes[n].template_name \notin
            {Templates[t].name : t \in DOMAIN Templates}

\* C2: when a node definition names a template that the listing lacks, no
\* node-creation call is ever issued, the project holds no node, the script
\* never gets past assign_template_ids, and it ends with a non-zero status.
C2_NoNodeWithoutTemplate ==
    TemplateMissing =>
        /\ CallsOf("create_node") = {}
        /\ server.nodes = <<>>
        /\ pc \in {"create_project", "delete_project", "post_project",
                   "assign_template_ids", "exited"}
        /\ pc = "exited" => exit_code = 1

\* The run ended on the unknown template of the second node; the first
\* node's template is listed and was assigned.
C2_Witness ==
    /\ pc = "exited"
    /\ outcome = "unknown_template"
    /\ Len(CONFIG.nodes) >= 2
    /\ "template_id" \in DOMAIN CONFIG.nodes[1]
    /\ "template_id" \notin DOMAIN CONFIG.nodes[2]
\* Link k of the configuration file names a node that is not defined.
UnknownNodeLink(k) ==
    \E m \in 1..2 :
        NodeIndex(config_file.nodes, config_file.links[k][m].name) = 0

\* Link k names, at a defined node, an interface that the node's recorded
\* port list does not have.
UnknownInterfaceLink(k) ==
    \E m \in 1..2 :
        LET n == NodeIndex(CONFIG.nodes, config_file.links[k][m].name)
        IN  n # 0 /\ ~HasPort(CONFIG.nodes[n], config_file.links[k][m].interface)

AfterLinks == {"emit", "start_nodes", "day0_config"}

\* The iteration of add_links for link k has run.
LinkTried(k) ==
    \/ pc = "add_links" /\ i > k
    \/ pc = "exited" /\ at = "add_links" /\ i >= k
    \/ pc \in AfterLinks
    \/ pc = "exited" /\ at \in AfterLinks

\* C3 as stated: when the loop of add_links has handled a link with an
\* endpoint that names an undefined node, the run has ended with the
\* unknown-node error and a non-zero status, and no link-creation call was
\* issued for that link or a later one.
C3_UnknownNodeDiagnosed ==
    \A k \in DOMAIN config_file.links :
        (UnknownNodeLink(k) /\ LinkTried(k)) =>
            /\ pc = "exited"
            /\ outcome = "unknown_node"
            /\ exit_code = 1
            /\ Cardinality(CallsOf("create_link")) < k

\* C4 as stated: when the loop of add_links has handled a link with an
\* endpoint whose interface is not in the node's port list, the run has ended
\* with a diagnosed error of the kind of the unknown-node error and a
\* non-zero status, and no link-creation call was issued for that link.
C4_UnknownInterfaceDiagnosed ==
    \A k \in DOMAIN config_file.links :
        (UnknownInterfaceLink(k) /\ LinkTried(k)) =>
            /\ pc = "exited"
            /\ outcome \in {"unknown_interface", "unknown_node"}
            /\ exit_code = 1
            /\ Cardinality(CallsOf("create_link")) < k

\* The status each remote call expects.
ExpectedStatus(op) ==
    CASE op = "list_projects" -> 200
      [] op = "delete_project" -> 204
      [] op = "create_project" -> 201
      [] op = "list_templates" -> 200
      [] op = "create_node" -> 201
      [] op = "update_node" -> 200
      [] op = "create_link" -> 201
      [] op = "start_all" -> 204

CallOk(c) == c.status = ExpectedStatus(c.op)

\* The last call of the log cs returned a status it does not expect.
LastCallFailed(cs) == cs # <<>> /\ ~CallOk(cs[Len(cs)])

C5_Step ==
    /\ (calls' # calls /\ LastCallFailed(calls')) =>
          /\ pc' = "exited"
          /\ exit_code' = 1
          /\ server' = server
    /\ pc = "exited" =>
          /\ pc' = "exited"
          /\ calls' = calls
          /\ server' = server
          /\ invoked' = invoked

\* C5: a step in which a remote call returns a status other than the one it
\* expects ends the run with a non-zero status and leaves the server as it
\* was, and after the run has ended no call is issued, no script is invoked
\* and the server does not change.
C5_FailFast == [][C5_Step]_vars

\* The run ended on a failed link-creation call after nodes were created,
\* and they are still on the server.
C5_Witness ==
    /\ pc = "exited"
    /\ LastCallFailed(calls)
    /\ calls[Len(calls)].op = "create_link"
    /\ Len(server.nodes) = Len(CONFIG.nodes)
    /\ exit_code = 1

StageOf(op) ==
    CASE op \in {"list_projects", "delete_project", "create_project"} -> 1
      [] op = "list_templates" -> 2
      [] op \in {"create_node", "update_node"} -> 3
      [] op = "create_link" -> 4
      [] op = "start_all" -> 5

\* Before call b, a call `op` for `name` returned the status it expects.
DoneBefore(b, op, name) ==
    \E a \in 1..(b - 1) :
        calls[a].op = op /\ calls[a].name = name /\ CallOk(calls[a])

\* Before call b, every node of the configuration file was created, and
\* updated if it asks for seed media.
NodesDoneBefore(b) ==
    \A n \in DOMAIN config_file.nodes :
        /\ DoneBefore(b, "create_node", config_file.nodes[n].name)
        /\ "cloud_init" \in DOMAIN config_file.nodes[n] =>
              DoneBefore(b, "update_node", config_file.nodes[n].name)

\* C6: the calls are issued stage by stage in the order project, templates,
\* nodes, links, start, Day-0; the first call of a stage comes after the
\* stage before it has completed; every node-creation call has succeeded
\* before the first link-creation call.
C6_StageOrder ==
    /\ \A b \in 2..Len(calls) :
          StageOf(calls[b - 1].op) <= StageOf(calls[b].op)
    /\ \A b \in DOMAIN calls :
          /\ calls[b].op = "list_templates" =>
                DoneBefore(b, "create_project", config_file.project_name)
          /\ calls[b].op \in {"create_node", "update_node"} =>
                DoneBefore(b, "list_templates", "")
          /\ calls[b].op = "create_link" => NodesDoneBefore(b)
          /\ calls[b].op = "start_all" =>
                /\ NodesDoneBefore(b)
                /\ Cardinality({a \in CallsOf("create_link") : CallOk(calls[a])})
                      = Len(config_file.links)
    /\ invoked # <<>> => \E a \in CallsOf("start_all") : CallOk(calls[a])

\* A run of two nodes and a link went through every stage.
C6_Witness ==
    /\ pc = "exited"
    /\ outcome = "success"
    /\ Len(CONFIG.nodes) >= 2
    /\ CallsOf("create_link") # {}
    /\ CallsOf("update_node") # {}
    /\ invoked # <<>>

\* The node called `name` has the identifier, console and port list of its
\* own successful creation call on record.
Provisioned(name) ==
    \E n \in DOMAIN CONFIG.nodes :
        /\ CONFIG.nodes[n].name = name
        /\ {"node_id", "console", "ports"} \subseteq DOMAIN CONFIG.nodes[n]
        /\ \E a \in CallsOf("create_node") :
              /\ calls[a].name = name
              /\ CallOk(calls[a])
              /\ calls[a].body.node_id = CONFIG.nodes[n].node_id
              /\ calls[a].body.console = CONFIG.nodes[n].console
              /\ calls[a].body.ports = CONFIG.nodes[n].ports
        /\ \E v \in DOMAIN server.nodes :
              /\ server.nodes[v].name = name
              /\ server.nodes[v].project_id = CONFIG.project_id
              /\ server.nodes[v].node_id = CONFIG.nodes[n].node_id

LinkCalls == SelectSeq(calls, LAMBDA c : c.op = "create_link")

\* C7: the two nodes named by a link for which a link-creation call was
\* issued, every node once the start-all call was issued, and every node
\* whose Day-0 script was invoked are provisioned; the identifiers sent in
\* the link request are the recorded ones.
C7_ProvisionedBeforeUse ==
    /\ \A k \in DOMAIN LinkCalls : \A m \in 1..2 :
          /\ Provisioned(config_file.links[k][m].name)
          /\ \E n \in DOMAIN CONFIG.nodes :
                /\ CONFIG.nodes[n].name = config_file.links[k][m].name
                /\ CONFIG.nodes[n].node_id = LinkCalls[k].data[m].node_id
    /\ CallsOf("start_all") # {} =>
          \A n \in DOMAIN CONFIG.nodes : Provisioned(CONFIG.nodes[n].name)
    /\ \A d \in DOMAIN invoked : Provisioned(invoked[d].name)

\* A link call, the start-all call and a Day-0 invocation have all happened.
C7_Witness ==
    /\ LinkCalls # <<>>
    /\ CallsOf("start_all") # {}
    /\ invoked # <<>>
    /\ Len(CONFIG.nodes) >= 2

\* The names of the nodes with a "cmdfile", in declaration order.
WithCmdfile ==
    LET ns == SelectSeq(config_file.nodes, LAMBDA n : "cmdfile" \in DOMAIN n)
    IN  [n \in DOMAIN ns |-> ns[n].name]

\* C8: once a Day-0 invocation has returned a non-zero status the script is
\* still in day0_config or has ended; when it has ended, it ended with
\* status 0 and every node with a "cmdfile" was invoked, in order.
C8_Day0FailureIgnored ==
    (\E d \in DOMAIN invoked : invoked[d].rc # 0) =>
        /\ pc \in {"day0_config", "exited"}
        /\ pc = "exited" =>
              /\ exit_code = 0
              /\ outcome = "success"
              /\ [d \in DOMAIN invoked |-> invoked[d].name] = WithCmdfile

\* The first of two invocations failed and the run ended in success.
C8_Witness ==
    /\ pc = "exited"
    /\ outcome = "success"
    /\ Len(invoked) = 2
    /\ invoked[1].rc # 0
    /\ invoked[2].rc = 0

\* The second run has ended with status 0.
SecondRunDone == run = 2 /\ pc = "exited" /\ exit_code = 0

\* The server holds one project of the configured name, and its shape is the
\* shape the first run left.
SameShape ==
    /\ Shape(server, config_file.project_name) = first
    /\ Len(Shape(server, config_file.project_name)) = 1

\* C9 as stated: after the second successful run the server holds exactly
\* one project of the configured name, with the nodes and links of the first
\* run's result.
C9_Original == SecondRunDone => SameShape

\* C9 amended: the same, when the server held at most one project of the
\* configured name before the first run.
C9_SameShapeTwice ==
    (SecondRunDone /\ Cardinality(Named(before, config_file.project_name)) <= 1)
        => SameShape

\* Two successful runs on a server that held one project of the configured
\* name; the project has two nodes and a link.
C9_Witness ==
    /\ SecondRunDone
    /\ Cardinality(Named(before, config_file.project_name)) = 1
    /\ Len(first) = 1
    /\ Len(first[1].nodes) >= 2
    /\ Len(first[1].links) = 1

\* add_nodes has returned.
NodesProvisioned ==
    \/ pc \in {"add_links"} \cup AfterLinks
    \/ pc = "exited" /\ at \in {"add_links"} \cup AfterLinks

\* C10 as stated: after add_nodes has returned, the identifier, console and
\* port list recorded for every node are non-empty.
C10_Original ==
    NodesProvisioned =>
        \A n \in DOMAIN CONFIG.nodes :
            /\ {"node_id", "console", "ports"} \subseteq DOMAIN CONFIG.nodes[n]
            /\ CONFIG.nodes[n].node_id # None
            /\ CONFIG.nodes[n].console # None
            /\ CONFIG.nodes[n].ports # <<>>

\* C10 amended: after add_nodes has returned, every node has an identifier,
\* a console and a port list on record, they are the ones the server
\* answered its creation call with, and the identifier is non-empty.
C10_RecordsTheResponse ==
    NodesProvisioned =>
        \A n \in DOMAIN CONFIG.nodes :
            /\ {"node_id", "console", "ports"} \subseteq DOMAIN CONFIG.nodes[n]
            /\ CONFIG.nodes[n].node_id # None
            /\ \E a \in CallsOf("create_node") :
                  /\ calls[a].name = CONFIG.nodes[n].name
                  /\ CallOk(calls[a])
                  /\ calls[a].body.node_id = CONFIG.nodes[n].node_id
                  /\ calls[a].body.console = CONFIG.nodes[n].console
                  /\ calls[a].body.ports = CONFIG.nodes[n].ports

\* add_nodes has returned with a node whose console is null and a node whose
\* port list is empty.
C10_Witness ==
    /\ NodesProvisioned
    /\ \E n \in DOMAIN CONFIG.nodes : CONFIG.nodes[n].console = None
    /\ \E n \in DOMAIN CONFIG.nodes : CONFIG.nodes[n].ports = <<>>
    /\ \E n \in DOMAIN CONFIG.nodes : CONFIG.nodes[n].console # None

\* C11 as stated: when the process has exited, no temporary seed-media
\* directory made during the run is left on disk, whichever way it exited:
\* normally, on a failed remote call, or on a failure of the seed-media
\* generation itself after the directory was made.
C11_TmpdirsRemoved == pc = "exited" => tmpdirs = {}

\* The number a sequence of decimal digits writes.
RECURSIVE Value(_)
Value(ds) ==
    IF ds = <<>> THEN 0
    ELSE 10 * Value(SubSeq(ds, 1, Len(ds) - 1))
         + (CHOOSE d \in 0..9 : Digit[d + 1] = ds[Len(ds)])

\* `name` is the template name t without its spaces, a '-' and the number k.
IsPoolName(name, t, k) ==
    /\ " " \notin Range(name)
    /\ \E cut \in DOMAIN name :
          /\ name[cut] = "-"
          /\ SubSeq(name, 1, cut - 1) = NoSpaces(t)
          /\ cut < Len(name)
          /\ \A d \in (cut + 1)..Len(name) : name[d] \in Range(Digit)
          /\ Value(SubSeq(name, cut + 1, Len(name))) = k

\* The creation calls issued for the pool of template t, in order.
PoolCalls(t) == SelectSeq(calls, LAMBDA c : c.op = "create_node" /\ c.data = t)

\* C12: for every template pool, the names of the creation calls issued for
\* its instances are pairwise different, and the k-th of them is the
\* template name with the spaces removed, a '-' and the number k, counted
\* from 1; the descriptors carry the same names.
C12_PoolNames ==
    \A p \in DOMAIN CONFIG.pools :
        LET t == CONFIG.pools[p].template_name
            cs == PoolCalls(t)
        IN  /\ \A k \in DOMAIN cs : IsPoolName(cs[k].name, t, k)
            /\ \A a, b \in DOMAIN cs : a # b => cs[a].name # cs[b].name
            /\ \A k \in NamedIn(CONFIG.pools[p]) :
                  /\ k <= Len(cs)
                  /\ CONFIG.pools[p].instances[k].name = cs[k].name

\* Two pools of two instances each were created, the first of a template
\* with a space in its name, and the listing gave every instance its id.
C12_Witness ==
    /\ pc = "pool_nodes_added"
    /\ Len(CONFIG.pools) = 2
    /\ " " \in Range(CONFIG.pools[1].template_name)
    /\ \A p \in 1..2 : Len(PoolCalls(CONFIG.pools[p].template_name)) = 2
    /\ \A p \in 1..2 : \A k \in 1..2 : CONFIG.pools[p].instances[k].node_id # None

\* The first project of the listing before the run with the configured
\* name, NoProject if there is none.
FirstNamed ==
    LET hits == Named(before, config_file.project_name)
    IN  IF hits = {} THEN NoProject
        ELSE before[CHOOSE n \in hits : \A m \in hits : n <= m]

\* C13: a run issues at most one project-deletion call; its target is the
\* first project of the listing whose name is the configured name, letter
\* case included; every other project of the listing stays on the server;
\* and when the listing call or the deletion call has not succeeded, no
\* project-creation call is issued.
C13_OneDeletionOfFirstMatch ==
    /\ Cardinality(CallsOf("delete_project")) <= 1
    /\ \A a \in CallsOf("delete_project") :
          /\ FirstNamed # NoProject
          /\ calls[a].data = FirstNamed.project_id
    /\ \A n \in DOMAIN before :
          before[n] # FirstNamed =>
              before[n].project_id \in ProjectIds(server.projects)
    /\ (\E a \in CallsOf("list_projects") \cup CallsOf("delete_project") :
            ~CallOk(calls[a])) => CallsOf("create_project") = {}

\* The server listed a project "LAB" and then a project "lab"; the run
\* deleted the second, created its project and "LAB" is still there.
C13_Witness ==
    /\ Len(before) = 2
    /\ before[1].name = "LAB"
    /\ before[2].name = config_file.project_name
    /\ \E a \in CallsOf("delete_project") :
          CallOk(calls[a]) /\ calls[a].data = before[2].project_id
    /\ CallsOf("create_project") # {}
    /\ before[1].project_id \in ProjectIds(server.projects)
    /\ before[2].project_id \notin ProjectIds(server.projects)

\* The link-creation calls that returned the status they expect.
LinkCallsOk == SelectSeq(LinkCalls, LAMBDA c : CallOk(c))

\* C14: the link-creation calls are issued for the links of the
\* configuration file in their order, one call per link, so that call k is
\* for link k; only the last call may have failed, and then the run has
\* ended; the links of the calls that succeeded are on the server, in order;
\* past add_links there is one successful call for every link.
C14_LinkCallsArePrefix ==
    /\ Len(LinkCalls) <= Len(config_file.links)
    /\ \A k \in DOMAIN LinkCalls :
          /\ \A m \in 1..2 :
                NodeNameOf(server, LinkCalls[k].data[m].node_id)
                    = config_file.links[k][m].name
          /\ k < Len(LinkCalls) => CallOk(LinkCalls[k])
          /\ ~CallOk(LinkCalls[k]) => pc = "exited" /\ at = "add_links" /\ i = k
    /\ server.links = [k \in DOMAIN LinkCallsOk |->
                          [project_id |-> CONFIG.project_id,
                           nodes |-> LinkCallsOk[k].data]]
    /\ (pc = "add_links" /\ CONFIG.links # <<>>) => Len(LinkCalls) = i - 1
    /\ (pc \in AfterLinks \/ (pc = "exited" /\ at \in AfterLinks)) =>
          Len(LinkCallsOk) = Len(config_file.links)

\* The call for the second of two different links failed: the run has
\* ended and the first link is on the server.
C14_Witness ==
    /\ pc = "exited"
    /\ Len(config_file.links) = 2
    /\ config_file.links[1] # config_file.links[2]
    /\ Len(LinkCalls) = 2
    /\ ~CallOk(LinkCalls[2])
    /\ Len(server.links) = 1

\* C15: in every link-creation call, endpoint m of the request carries the
\* node id recorded for the node that member m of the link names, and the
\* adapter number and port number of the port recorded for that node at the
\* interface member m names.
C15_LinkRequestCarriesRecorded ==
    \A k \in DOMAIN LinkCalls : \A m \in 1..2 :
        LET member == config_file.links[k][m]
            n == NodeIndex(CONFIG.nodes, member.name)
            sent == LinkCalls[k].data[m]
        IN  /\ n # 0
            /\ HasPort(CONFIG.nodes[n], member.interface)
            /\ sent.node_id = CONFIG.nodes[n].node_id
            /\ sent.adapter_number
                  = CONFIG.nodes[n].ports[member.interface + 1].adapter_number
            /\ sent.port_number
                  = CONFIG.nodes[n].ports[member.interface + 1].port_number

\* A call was issued for a link from the second interface of one node to
\* the first interface of another.
C15_Witness ==
    \E k \in DOMAIN LinkCalls :
        /\ config_file.links[k][1].name # config_file.links[k][2].name
        /\ config_file.links[k][1].interface = 1
        /\ config_file.links[k][2].interface = 0
        /\ LinkCalls[k].data[1].adapter_number # LinkCalls[k].data[2].adapter_number
        /\ LinkCalls[k].data[1].node_id # LinkCalls[k].data[2].node_id

\* C16 as stated: no link-creation call is issued whose two endpoints are
\* the same node or the same interface of the same node; the two endpoints
\* of every call are different provisioned nodes.
C16_NoSelfLink ==
    \A k \in DOMAIN LinkCalls :
        /\ LinkCalls[k].data[1].node_id # LinkCalls[k].data[2].node_id
        /\ LinkCalls[k].data[1] # LinkCalls[k].data[2]
        /\ \A m \in 1..2 : Provisioned(config_file.links[k][m].name)

\* The start-all calls that returned 204.
StartedOk == {a \in CallsOf("start_all") : calls[a].status = StartOk}

\* C17: a run issues at most one start-all request, and issues it after a
\* successful call for every link; Day-0 configuration is entered, and a
\* script is invoked, only when that one request has returned 204 and the
\* ten seconds of the wait have passed; when the request has returned
\* another status the run has ended with a non-zero status without waiting
\* and no script has been invoked.
C17_OneStartBeforeDay0 ==
    /\ Cardinality(CallsOf("start_all")) <= 1
    /\ \A a \in CallsOf("start_all") :
          /\ Len(LinkCallsOk) = Len(config_file.links)
          /\ \A b \in CallsOf("create_link") : b < a
    /\ (pc = "day0_config" \/ (pc = "exited" /\ at = "day0_config")
          \/ invoked # <<>>) =>
          /\ Cardinality(CallsOf("start_all")) = 1
          /\ StartedOk = CallsOf("start_all")
          /\ slept = SettleDelay
    /\ (CallsOf("start_all") # StartedOk) =>
          /\ pc = "exited"
          /\ at = "start_nodes"
          /\ exit_code = 1
          /\ invoked = <<>>
          /\ slept = 0

\* The start-all request returned 200 in a run with a node that has a
\* "cmdfile": the run ended there and no script was invoked.
C17_Witness ==
    /\ pc = "exited"
    /\ at = "start_nodes"
    /\ \E a \in CallsOf("start_all") : calls[a].status = 200
    /\ WithCmdfile # <<>>
    /\ LinkCalls # <<>>
    /\ invoked = <<>>

\* The names of the nodes whose script was invoked, in order of invocation.
InvokedNames == [d \in DOMAIN invoked |-> invoked[d].name]

\* C18: the scripts invoked so far are those of the first nodes that have a
\* "cmdfile", one invocation each, in declaration order, every one with its
\* exit status before the next is made; a node without "cmdfile" is never
\* invoked; and when day0_config has returned, every node with a "cmdfile"
\* was invoked.
C18_Day0OncePerNodeInOrder ==
    /\ Len(InvokedNames) <= Len(WithCmdfile)
    /\ InvokedNames = SubSeq(WithCmdfile, 1, Len(InvokedNames))
    /\ \A d \in DOMAIN invoked :
          /\ invoked[d].rc \in {0, 1}
          /\ \E n \in DOMAIN config_file.nodes :
                /\ config_file.nodes[n].name = invoked[d].name
                /\ "cmdfile" \in DOMAIN config_file.nodes[n]
          /\ \A e \in DOMAIN invoked : e # d => invoked[e].name # invoked[d].name
    /\ (pc = "exited" /\ at = "day0_config") => InvokedNames = WithCmdfile

\* A run of a node without "cmdfile" followed by a node with one has ended:
\* only the second was invoked.
C18_Witness ==
    /\ pc = "exited"
    /\ at = "day0_config"
    /\ Len(config_file.nodes) = 2
    /\ "cmdfile" \notin DOMAIN config_file.nodes[1]
    /\ "cmdfile" \in DOMAIN config_file.nodes[2]
    /\ InvokedNames = << config_file.nodes[2].name >>

\* The project that the run found on the server is no longer there.
PriorGone == FirstNamed.project_id \notin ProjectIds(server.projects)

\* The server has the project of this run: a project of the configured name
\* that was not there before, with at most the nodes and links of the
\* configuration.
NewProject ==
    /\ ProjectResolved
    /\ CONFIG.project_id \notin ProjectIds(before)
    /\ \E n \in DOMAIN server.projects :
          /\ server.projects[n].project_id = CONFIG.project_id
          /\ server.projects[n].name = config_file.project_name
    /\ Len(SelectSeq(server.nodes, LAMBDA n : n.project_id = CONFIG.project_id))
          <= Len(config_file.nodes)
    /\ Len(SelectSeq(server.links, LAMBDA l : l.project_id = CONFIG.project_id))
          <= Len(config_file.links)

ProjectSteps == {"create_project", "delete_project", "post_project"}

\* C19: when the server held a project of the configured name and the run
\* has ended in any step after create_project (an unknown template, an
\* unknown node or interface of a link, a failed node or link call), that
\* project is gone and the new project exists, empty when the templates
\* were not assigned; the old project is still there at the end of a run
\* only when the listing call or the deletion call failed.
C19_DeletionBeforeValidation ==
    (FirstNamed # NoProject /\ pc = "exited") =>
        /\ at \notin ProjectSteps => PriorGone /\ NewProject
        /\ at = "assign_template_ids" => server.nodes = <<>>
        /\ ~PriorGone =>
              /\ at \in {"create_project", "delete_project"}
              /\ LastCallFailed(calls)
              /\ calls[Len(calls)].op \in {"list_projects", "delete_project"}

\* The run ended on an unknown template: the project the server held is
\* gone and the new one is empty.
C19_Witness ==
    /\ pc = "exited"
    /\ outcome = "unknown_template"
    /\ FirstNamed # NoProject
    /\ PriorGone
    /\ NewProject
    /\ server.nodes = <<>>

\* The output files named on the command line.
Requested == {f \in DOMAIN args : args[f]}

\* Every node and every link of the configuration file was created.
AllCreated ==
    /\ \A n \in DOMAIN config_file.nodes :
          \E a \in CallsOf("create_node") :
              calls[a].name = config_file.nodes[n].name /\ CallOk(calls[a])
    /\ Len(LinkCallsOk) = Len(config_file.links)

BootSteps == {"start_nodes", "day0_config"}

====
